---- MODULE Spec2Model ----
(***************************************************************************)
(* A model of pkg/redact/redact.go: the Redact entry point, the building   *)
(* of the redactor chain, the replacement template, and the process-wide   *)
(* redaction ledger (allRedactions, redactionListMut, pendingRedactions).  *)
(*                                                                         *)
(* Text is modelled as a sequence of lines and a line as a sequence of     *)
(* tokens (strings).  A regular expression is modelled by its compiled     *)
(* form: a sequence of pieces (each the set of tokens it accepts) and the  *)
(* capture groups, in the order of their opening parenthesis, each with    *)
(* its name and the span of pieces it captures.                            *)
(***************************************************************************)
EXTENDS Integers, Sequences, FiniteSets, TLC

VARIABLES
    args,               \* caller -> the arguments of its Redact call
    callPc,             \* caller -> position in Redact
    chain,              \* caller -> the redactors chained at line 62-64
    drain,              \* caller -> what reading the chained reader yields
    issued,             \* caller -> number of addRedaction calls made so far
    result,             \* caller -> what Redact returned, or NIL
    gor,                \* goroutine id -> state of the append goroutine
    pendingRedactions,  \* the WaitGroup counter
    redactionListMut,   \* the holder of the mutex, or NIL
    allRedactions,      \* the two map references of the global RedactionList
    heapR,              \* map object id -> contents of a ByRedactor map
    heapF,              \* map object id -> contents of a ByFile map
    getPc,              \* position of the GetRedactionList caller
    get,                \* the last GetRedactionList call
    resetPc,            \* position of the ResetRedactionList caller
    resetsStarted,      \* number of ResetRedactionList calls begun
    getsLeft,           \* GetRedactionList calls still to be made
    resetsLeft          \* ResetRedactionList calls still to be made

vars == <<args, callPc, chain, drain, issued, result, gor, pendingRedactions,
          redactionListMut, allRedactions, heapR, heapF, getPc, get,
          resetPc, resetsStarted, getsLeft, resetsLeft>>

NIL == "<nil>"

MASK_TEXT == "***HIDDEN***"

----------------------------------------------------------------------------
(* Helpers on sequences *)

RECURSIVE Flatten(_)
Flatten(ss) == IF ss = <<>> THEN <<>> ELSE Head(ss) \o Flatten(Tail(ss))

RECURSIVE SumSeq(_)
SumSeq(ns) == IF ns = <<>> THEN 0 ELSE Head(ns) + SumSeq(Tail(ns))

Range(s) == {s[i] : i \in 1..Len(s)}

Min(S) == CHOOSE x \in S : \A y \in S : x <= y

\* %q of fmt.Sprintf: the string in double quotes
Quote(s) == "\"" \o s \o "\""

----------------------------------------------------------------------------
(* Regular expressions, in compiled form *)

Tokens == {"Pwd=", "s3cr3t", ";", "k=", "v", "10", ".", "name:password",
           "value:", "\"", "http", "://", "u", ":", "pw", "@host"}

NotIn(S) == Tokens \ S

Grp(name, from, to) == [name |-> name, from |-> from, to |-> to]

Pat(src, pieces, groups) ==
    [src |-> src, valid |-> TRUE, pieces |-> pieces, groups |-> groups]

\* a pattern regexp.Compile rejects
BadPat(src) == [src |-> src, valid |-> FALSE, pieces |-> <<>>, groups |-> <<>>]

\* (key)(?P<mask>[^term]+)(term): the shape of most built-in patterns
KeyMaskEnd(src, key, term) ==
    Pat(src, <<{key}, NotIn({term}), {term}>>,
        <<Grp("", 1, 1), Grp("mask", 2, 2), Grp("", 3, 3)>>)

\* a pattern without capture groups, as the selector lines of doubleLines
Plain(src, key) == Pat(src, <<{key}>>, <<>>)

\* re.SubexpNames(): index 0 is the whole match, then the groups in order
SubexpNames(re) == <<"">> \o [i \in 1..Len(re.groups) |-> re.groups[i].name]

\* the pattern matches the tokens of line that start at position j
MatchesAt(re, line, j) ==
    /\ Len(re.pieces) > 0
    /\ j + Len(re.pieces) - 1 <= Len(line)
    /\ \A i \in 1..Len(re.pieces) : line[j + i - 1] \in re.pieces[i]

\* re.MatchString(line)
MatchString(re, line) == \E j \in 1..Len(line) : MatchesAt(re, line, j)

\* the text group i captured in the match at j
Captured(re, line, j, i) ==
    SubSeq(line, j + re.groups[i].from - 1, j + re.groups[i].to - 1)

----------------------------------------------------------------------------
(* getReplacementPattern and its use by the regex redactors *)

\* a group named drop re-emitted by its name like any other named group
FragmentKeepsDrop(i, name, maskText) ==
    IF name = "" THEN <<"$" \o ToString(i)>>
    ELSE IF name = "mask" THEN <<maskText>>
    ELSE <<"${" \o name \o "}">>

\* what one capture group adds to substStr (redact.go lines 264-272)
ReplacementFragment(i, name, maskText) ==
    IF name = "" THEN <<"$" \o ToString(i)>>
    ELSE IF name = "mask" THEN <<maskText>>
    ELSE IF name = "drop" THEN <<>>
    ELSE <<"${" \o name \o "}">>

\* a template that also re-emits group 0, the whole match
ReplacementWithGroupZero(re, maskText) ==
    LET names == SubexpNames(re)
    IN  Flatten([k \in 1..Len(names) |->
                    ReplacementFragment(k - 1, names[k], maskText)])

\* the template, as the sequence of the fragments appended to substStr
getReplacementPattern(re, maskText) ==
    LET names == SubexpNames(re)
    IN  Flatten([k \in 1..Len(names) |->
                    IF k = 1 THEN <<>>
                    ELSE ReplacementFragment(k - 1, names[k], maskText)])

\* regexp's expansion of one fragment of the template for the match at j:
\* $0 is the match, $i group i, ${name} the first group of that name, and
\* other text is itself
ExpandFragment(f, re, line, j) ==
    LET n == Len(re.groups)
        byIndex == {i \in 1..n : f = "$" \o ToString(i)}
        byName == {i \in 1..n : /\ re.groups[i].name # ""
                                /\ f = "${" \o re.groups[i].name \o "}"}
    IN  IF f = "$0" THEN SubSeq(line, j, j + Len(re.pieces) - 1)
        ELSE IF byIndex # {} THEN Captured(re, line, j, Min(byIndex))
        ELSE IF byName # {} THEN Captured(re, line, j, Min(byName))
        ELSE <<f>>

Expand(tmpl, re, line, j) ==
    Flatten([k \in 1..Len(tmpl) |-> ExpandFragment(tmpl[k], re, line, j)])

\* re.ReplaceAllString(line, tmpl): leftmost non-overlapping matches
RECURSIVE ReplaceFrom(_, _, _, _)
ReplaceFrom(re, line, tmpl, j) ==
    IF j > Len(line) THEN <<>>
    ELSE IF MatchesAt(re, line, j)
         THEN Expand(tmpl, re, line, j)
                  \o ReplaceFrom(re, line, tmpl, j + Len(re.pieces))
         ELSE <<line[j]>> \o ReplaceFrom(re, line, tmpl, j + 1)

ReplaceAllString(re, line, tmpl) == ReplaceFrom(re, line, tmpl, 1)

----------------------------------------------------------------------------
(* Names, globs and the building of the redactors *)

\* redactorName (redact.go lines 305-313)
redactorName(redactorNum, withinRedactorNum, name, redactorType, redactorLiteral) ==
    IF name # "" THEN name \o "-" \o ToString(withinRedactorNum)
    ELSE IF redactorLiteral = ""
         THEN "unnamed-" \o ToString(redactorNum) \o "."
                  \o ToString(withinRedactorNum) \o "-" \o redactorType
         ELSE redactorType \o "." \o ToString(withinRedactorNum) \o "-"
                  \o Quote(redactorLiteral)

\* withinRedactNum of buildAdditionalRedactors: set at line 106, never changed
withinRedactNum == 0

Paths == {"logs/a.log", "config/app.yaml"}

\* glob.Compile(g, '/') succeeds
GlobValid(g) == g # "["

\* glob.Compile(g, '/').Match(path), for the globs of the model
GlobMatch(g, path) ==
    CASE g = "**"         -> TRUE
      [] g = "logs/*.log" -> path = "logs/a.log"
      [] g = "config/*"   -> path = "config/app.yaml"
      [] g = "*.log"      -> FALSE
      [] OTHER            -> g = path

\* a rule that ignores its globs
MatchesAnyPath(path, redact) == [matches |-> TRUE, err |-> NIL]

\* redactMatchesPath (redact.go lines 136-166)
redactMatchesPath(path, redact) ==
    IF redact.File = "" /\ Len(redact.Files) = 0
    THEN [matches |-> TRUE, err |-> NIL]
    ELSE IF redact.File # "" /\ ~GlobValid(redact.File)
    THEN [matches |-> FALSE,
          err |-> "invalid file glob string " \o Quote(redact.File)]
    ELSE LET bad == {k \in 1..Len(redact.Files) : ~GlobValid(redact.Files[k])}
         IN  IF bad # {}
             THEN [matches |-> FALSE,
                   err |-> "invalid file glob string " \o ToString(Min(bad) - 1)
                               \o " " \o Quote(redact.Files[Min(bad)])]
             ELSE LET globs == (IF redact.File # "" THEN <<redact.File>> ELSE <<>>)
                                   \o redact.Files
                  IN  [matches |-> \E k \in 1..Len(globs) : GlobMatch(globs[k], path),
                       err |-> NIL]

\* NewSingleLineRedactor: fails when the pattern does not compile
NewSingleLineRedactor(re, maskText, path, name, rule) ==
    IF ~re.valid THEN [err |-> "compile " \o Quote(re.src), r |-> <<>>]
    ELSE [err |-> NIL,
          r |-> <<[kind |-> "regex", name |-> name, path |-> path, re |-> re,
                   maskText |-> maskText, rule |-> rule]>>]

\* NewMultiLineRedactor: both patterns must compile
NewMultiLineRedactor(selector, redactor, maskText, path, name, rule) ==
    IF ~selector.valid THEN [err |-> "compile " \o Quote(selector.src), r |-> <<>>]
    ELSE IF ~redactor.valid THEN [err |-> "compile " \o Quote(redactor.src), r |-> <<>>]
    ELSE [err |-> NIL,
          r |-> <<[kind |-> "multiLine", name |-> name, path |-> path,
                   sel |-> selector, re |-> redactor, maskText |-> maskText,
                   rule |-> rule]>>]

literalString(literal, path, name, rule) ==
    [kind |-> "literal", name |-> name, path |-> path, value |-> literal,
     rule |-> rule]

NewYamlRedactor(yaml, path, name, rule) ==
    [kind |-> "yaml", name |-> name, path |-> path, yamlPath |-> yaml,
     rule |-> rule]

\* the redactors of one rule that matches the path (redact.go lines 106-131)
RuleRedactors(path, i, redact) ==
    LET rx == [k \in 1..Len(redact.Regex) |->
                  NewSingleLineRedactor(redact.Regex[k], MASK_TEXT, path,
                      redactorName(i, withinRedactNum, redact.Name, "regex", ""), i)]
        lit == [k \in 1..Len(redact.Values) |->
                   literalString(redact.Values[k], path,
                      redactorName(i, withinRedactNum, redact.Name, "literal", ""), i)]
        ml == [k \in 1..Len(redact.MultiLine) |->
                  NewMultiLineRedactor(redact.MultiLine[k].Selector,
                      redact.MultiLine[k].Redactor, MASK_TEXT, path,
                      redactorName(i, withinRedactNum, redact.Name, "multiLine", ""), i)]
        ym == [k \in 1..Len(redact.Yaml) |->
                  NewYamlRedactor(redact.Yaml[k], path,
                      redactorName(i, withinRedactNum, redact.Name, "yaml", ""), i)]
        badRx == {k \in 1..Len(rx) : rx[k].err # NIL}
        badMl == {k \in 1..Len(ml) : ml[k].err # NIL}
    IN  IF badRx # {}
        THEN [redactors |-> <<>>,
              err |-> "redactor " \o Quote(redact.Regex[Min(badRx)].src) \o ": "
                          \o rx[Min(badRx)].err]
        ELSE IF badMl # {}
        THEN [redactors |-> <<>>,
              err |-> "multiline redactor: " \o ml[Min(badMl)].err]
        ELSE [redactors |-> Flatten([k \in 1..Len(rx) |-> rx[k].r]) \o lit
                                \o Flatten([k \in 1..Len(ml) |-> ml[k].r]) \o ym,
              err |-> NIL]

\* the loop of buildAdditionalRedactors from rule i on (i counts from 1)
RECURSIVE BuildFrom(_, _, _, _)
BuildFrom(path, redacts, i, acc) ==
    IF i > Len(redacts) THEN [redactors |-> acc, err |-> NIL]
    ELSE LET redact == redacts[i]
         IN  IF redact.isNil THEN BuildFrom(path, redacts, i + 1, acc)
             ELSE LET m == redactMatchesPath(path, redact)
                  IN  IF m.err # NIL THEN [redactors |-> <<>>, err |-> m.err]
                      ELSE IF ~m.matches THEN BuildFrom(path, redacts, i + 1, acc)
                      ELSE LET built == RuleRedactors(path, i - 1, redact)
                           IN  IF built.err # NIL
                               THEN [redactors |-> <<>>, err |-> built.err]
                               ELSE BuildFrom(path, redacts, i + 1,
                                              acc \o built.redactors)

\* buildAdditionalRedactors (redact.go lines 90-134)
buildAdditionalRedactors(path, redacts) == BuildFrom(path, redacts, 1, <<>>)

\* the octets of the ipv4 pattern
Octet == {"10"}

\* singleLines of getRedactors (redact.go lines 174-202); each pattern is
\* given by a short form of its source and its token-level compiled form
singleLines == <<
    Pat("ipv4", <<Octet, {"."}, Octet, {"."}, Octet, {"."}, Octet>>,
        <<Grp("mask", 1, 7), Grp("drop", 1, 1), Grp("drop", 3, 3),
          Grp("drop", 5, 5), Grp("drop", 7, 7)>>),
    KeyMaskEnd("env SECRET_?ACCESS_?KEY", "env:SECRET_ACCESS_KEY=", "\""),
    KeyMaskEnd("env ACCESS_?KEY_?ID", "env:ACCESS_KEY_ID=", "\""),
    KeyMaskEnd("env OWNER_?ACCOUNT", "env:OWNER_ACCOUNT=", "\""),
    KeyMaskEnd("env password", "env:password=", "\""),
    KeyMaskEnd("env token", "env:token=", "\""),
    KeyMaskEnd("env database", "env:database=", "\""),
    KeyMaskEnd("env user", "env:user=", "\""),
    Pat("(https?|ftp)://user:password@host:port",
        <<{"http"}, {"://"}, NotIn({":"}), {":"}, NotIn({"@host"}), {"@host"}>>,
        <<Grp("", 1, 1), Grp("", 2, 2), Grp("mask", 3, 3), Grp("", 4, 4),
          Grp("mask", 5, 5), Grp("host", 6, 6), Grp("port", 7, 6)>>),
    Pat("user:password@tcp(host:port)/db",
        <<NotIn({":"}), {":"}, NotIn({":"}), {"@tcp("}, NotIn({":"}), {")/"},
          Tokens>>,
        <<Grp("mask", 1, 1), Grp("", 2, 2), Grp("mask", 3, 3), Grp("", 4, 4),
          Grp("mask", 5, 5), Grp("port", 6, 5), Grp("", 6, 6), Grp("mask", 7, 7)>>),
    KeyMaskEnd("(Data Source *= *)", "Data Source=", ";"),
    KeyMaskEnd("(location *= *)", "location=", ";"),
    KeyMaskEnd("(User ID *= *)", "User ID=", ";"),
    KeyMaskEnd("(password *= *)", "password=", ";"),
    KeyMaskEnd("(Server *= *)", "Server=", ";"),
    KeyMaskEnd("(Database *= *)", "Database=", ";"),
    KeyMaskEnd("(Uid *= *)", "Uid=", ";"),
    KeyMaskEnd("(Pwd *= *)", "Pwd=", ";") >>

\* line2 of every entry of doubleLines
ValueLine == KeyMaskEnd("(\"value\": *\")(?P<mask>.*[^\\\"]*)(\")", "value:", "\"")

\* doubleLines of getRedactors (redact.go lines 213-245)
doubleLines == <<
    [line1 |-> Plain("name SECRET_?ACCESS_?KEY", "name:SECRET_ACCESS_KEY"), line2 |-> ValueLine],
    [line1 |-> Plain("name ACCESS_?KEY_?ID", "name:ACCESS_KEY_ID"), line2 |-> ValueLine],
    [line1 |-> Plain("name OWNER_?ACCOUNT", "name:OWNER_ACCOUNT"), line2 |-> ValueLine],
    [line1 |-> Plain("name password", "name:password"), line2 |-> ValueLine],
    [line1 |-> Plain("name token", "name:token"), line2 |-> ValueLine],
    [line1 |-> Plain("name database", "name:database"), line2 |-> ValueLine],
    [line1 |-> Plain("name user", "name:user"), line2 |-> ValueLine] >>

\* getRedactors (redact.go lines 168-256)
getRedactors(path) ==
    LET sl == [k \in 1..Len(singleLines) |->
                  NewSingleLineRedactor(singleLines[k], MASK_TEXT, path,
                      redactorName(-1, k - 1, "", "defaultRegex", singleLines[k].src), -1)]
        dl == [k \in 1..Len(doubleLines) |->
                  NewMultiLineRedactor(doubleLines[k].line1, doubleLines[k].line2,
                      MASK_TEXT, path,
                      redactorName(-1, k - 1, "", "defaultMultiLine",
                                   doubleLines[k].line1.src), -1)]
        badSl == {k \in 1..Len(sl) : sl[k].err # NIL}
        badDl == {k \in 1..Len(dl) : dl[k].err # NIL}
    IN  IF badSl # {} THEN [redactors |-> <<>>, err |-> sl[Min(badSl)].err]
        ELSE IF badDl # {} THEN [redactors |-> <<>>, err |-> dl[Min(badDl)].err]
        ELSE [redactors |-> Flatten([k \in 1..Len(sl) |-> sl[k].r])
                                \o Flatten([k \in 1..Len(dl) |-> dl[k].r]),
              err |-> NIL]

----------------------------------------------------------------------------
(* What the redactors do to the text that flows through them *)

\* the line with every match of re replaced by the expanded template
RedactLine(re, maskText, line) ==
    ReplaceAllString(re, line, getReplacementPattern(re, maskText))

\* the characters of line, from position j on, that a mask or a drop group
\* of a match captured
RECURSIVE RemovedFrom(_, _, _)
RemovedFrom(re, line, j) ==
    IF j > Len(line) THEN 0
    ELSE IF MatchesAt(re, line, j)
         THEN LET hit == {p \in 1..Len(re.pieces) :
                             \E i \in 1..Len(re.groups) :
                                 /\ re.groups[i].name \in {"mask", "drop"}
                                 /\ re.groups[i].from <= p
                                 /\ p <= re.groups[i].to}
              IN  SumSeq([p \in 1..Len(re.pieces) |->
                             IF p \in hit THEN Len(line[j + p - 1]) ELSE 0])
                      + RemovedFrom(re, line, j + Len(re.pieces))
         ELSE RemovedFrom(re, line, j + 1)

\* redactor r redacts line n of the text it reads
StageRedacts(r, text, n) ==
    CASE r.kind = "regex"     -> MatchString(r.re, text[n])
      [] r.kind = "literal"   -> r.value \in Range(text[n])
      [] r.kind = "multiLine" -> /\ n > 1
                                 /\ MatchString(r.sel, text[n - 1])
                                 /\ MatchString(r.re, text[n])
      [] OTHER                -> FALSE

\* the tokens of line from position k on, each value replaced by the mask
RECURSIVE MaskValueFrom(_, _, _)
MaskValueFrom(value, line, k) ==
    IF k > Len(line) THEN <<>>
    ELSE <<IF line[k] = value THEN MASK_TEXT ELSE line[k]>>
             \o MaskValueFrom(value, line, k + 1)

\* line n of what redactor r emits when it reads text
StageLine(r, text, n) ==
    IF ~StageRedacts(r, text, n) THEN text[n]
    ELSE IF r.kind = "literal" THEN MaskValueFrom(r.value, text[n], 1)
    ELSE RedactLine(r.re, r.maskText, text[n])

\* the lines redactor r emits from line n on
RECURSIVE StageOutFrom(_, _, _)
StageOutFrom(r, text, n) ==
    IF n > Len(text) THEN <<>>
    ELSE <<StageLine(r, text, n)>> \o StageOutFrom(r, text, n + 1)

\* r.Redact(input), read to its end
StageOut(r, text) == StageOutFrom(r, text, 1)

\* the Redaction record redactor r reports for line n
StageRedaction(r, text, n) ==
    [RedactorName |-> r.name,
     CharactersRemoved |->
         IF r.kind = "literal"
         THEN Len(r.value) * Cardinality({k \in 1..Len(text[n]) : text[n][k] = r.value})
         ELSE RemovedFrom(r.re, text[n], 1),
     Line |-> n,
     File |-> r.path]

\* the input, then the text after each redactor of the chain
RECURSIVE ChainTexts(_, _)
ChainTexts(rs, text) ==
    IF rs = <<>> THEN <<text>>
    ELSE <<text>> \o ChainTexts(Tail(rs), StageOut(Head(rs), text))

\* what reading the last reader of the chain to its end gives
ChainOut(rs, text) == ChainTexts(rs, text)[Len(rs) + 1]

\* the addRedaction calls the chain makes while it is drained, line by line
ChainRedactions(rs, text) ==
    LET texts == ChainTexts(rs, text)
    IN  Flatten([n \in 1..Len(text) |->
            Flatten([k \in 1..Len(rs) |->
                IF StageRedacts(rs[k], texts[k], n)
                THEN <<StageRedaction(rs[k], texts[k], n)>>
                ELSE <<>>])])

----------------------------------------------------------------------------
(* Redact *)

Callers == {"c1", "c2"}

\* the custom redactors put before the built-in ones
ChainCustomFirst(builtin, built) == built \o builtin

\* line 59: the custom redactors are appended to the built-in ones
ChainOrder(builtin, built) == builtin \o built

\* Redact up to line 60: the redactors to chain, or the error it returns
RedactBuild(path, additionalRedactors) ==
    LET g == getRedactors(path)
        b == buildAdditionalRedactors(path, additionalRedactors)
    IN  IF g.err # NIL THEN [redactors |-> <<>>, err |-> g.err]
        ELSE IF b.err # NIL
        THEN [redactors |-> <<>>, err |-> "build custom redactors: " \o b.err]
        ELSE [redactors |-> ChainOrder(g.redactors, b.redactors), err |-> NIL]

\* Redact lines 66-71 with the partial data returned next to the error
ReturnPartial(read) ==
    [bytes |-> <<read.data>>, err |-> read.err]

\* Redact lines 66-71: what it returns for what ioutil.ReadAll returned;
\* bytes is <<>> for nil and <<text>> for a text
RedactReturnValue(read) ==
    IF read.err # NIL THEN [bytes |-> <<>>, err |-> read.err]
    ELSE [bytes |-> <<read.data>>, err |-> NIL]

\* the id of the goroutine of the k-th addRedaction of caller c
GorId(c, k) == c \o "." \o ToString(k)

\* lines 61-64: the readers are chained; reading the last one to its end
\* gives these lines and makes these addRedaction calls, in this order
ChainReaders(redactors, input) ==
    [out |-> ChainOut(redactors, input),
     redactions |-> ChainRedactions(redactors, input)]

\* the addRedaction calls of the Redact call of c
CallRedactions(c) == drain[c].redactions

\* a Redact that chains the built-in redactors over the input before it
\* builds the custom ones, and so drains them though the build fails
RedactStartAttachFirst(c) ==
    /\ callPc[c] = "start"
    /\ LET g == getRedactors(args[c].path)
           b == RedactBuild(args[c].path, args[c].rules)
           rs == IF b.err # NIL THEN g.redactors ELSE b.redactors
       IN  /\ chain' = [chain EXCEPT ![c] = rs]
           /\ drain' = [drain EXCEPT ![c] = ChainReaders(rs, args[c].input)]
           /\ callPc' = [callPc EXCEPT ![c] = "drain"]
           /\ result' = [result EXCEPT ![c] = [bytes |-> <<>>, err |-> b.err]]
    /\ UNCHANGED <<args, issued, gor, pendingRedactions, redactionListMut,
                   allRedactions, heapR, heapF, getPc, get, resetPc,
                   resetsStarted, getsLeft, resetsLeft>>

\* Redact lines 50-64 for caller c
RedactStart(c) ==
    /\ callPc[c] = "start"
    /\ LET b == RedactBuild(args[c].path, args[c].rules)
       IN  IF b.err # NIL
           THEN /\ result' = [result EXCEPT ![c] = [bytes |-> <<>>, err |-> b.err]]
                /\ callPc' = [callPc EXCEPT ![c] = "returned"]
                /\ UNCHANGED <<chain, drain>>
           ELSE /\ chain' = [chain EXCEPT ![c] = b.redactors]
                /\ drain' = [drain EXCEPT ![c] = ChainReaders(b.redactors, args[c].input)]
                /\ callPc' = [callPc EXCEPT ![c] = "drain"]
                /\ result' = result
    /\ UNCHANGED <<args, issued, gor, pendingRedactions, redactionListMut,
                   allRedactions, heapR, heapF, getPc, get, resetPc,
                   resetsStarted, getsLeft, resetsLeft>>

\* an addRedaction that returns only once it could take the mutex: the
\* caller is held up while another party is in the section
addRedactionLocked(c) ==
    /\ callPc[c] = "drain"
    /\ issued[c] < Len(CallRedactions(c))
    /\ redactionListMut = NIL
    /\ issued' = [issued EXCEPT ![c] = @ + 1]
    /\ pendingRedactions' = pendingRedactions + 1
    /\ gor' = gor @@ (GorId(c, issued[c] + 1) :>
                        [pc |-> "spawned",
                         redaction |-> CallRedactions(c)[issued[c] + 1],
                         caller |-> c,
                         resetsStartedAtIssue |-> resetsStarted,
                         sawR |-> -1, sawF |-> -1])
    /\ UNCHANGED <<args, callPc, chain, drain, result, redactionListMut,
                   allRedactions, heapR, heapF, getPc, get, resetPc,
                   resetsStarted, getsLeft, resetsLeft>>

\* addRedaction (lines 294-303) as the chain of c calls it during the drain:
\* the counter goes up and the goroutine is started, not yet run
addRedaction(c) ==
    /\ callPc[c] = "drain"
    /\ issued[c] < Len(CallRedactions(c))
    /\ issued' = [issued EXCEPT ![c] = @ + 1]
    /\ pendingRedactions' = pendingRedactions + 1
    /\ gor' = gor @@ (GorId(c, issued[c] + 1) :>
                        [pc |-> "spawned",
                         redaction |-> CallRedactions(c)[issued[c] + 1],
                         caller |-> c,
                         resetsStartedAtIssue |-> resetsStarted,
                         sawR |-> -1, sawF |-> -1])
    /\ UNCHANGED <<args, callPc, chain, drain, result, redactionListMut,
                   allRedactions, heapR, heapF, getPc, get, resetPc,
                   resetsStarted, getsLeft, resetsLeft>>

\* the lines of the output read before the stream failed
PartialData(c) ==
    LET out == drain[c].out
        m == IF issued[c] = 0 THEN 0 ELSE CallRedactions(c)[issued[c]].Line
    IN  SubSeq(out, 1, m)

\* Redact lines 66-69: the chained stream fails during the drain
RedactReadError(c) ==
    /\ callPc[c] = "drain"
    /\ args[c].streamFails
    /\ result' = [result EXCEPT ![c] =
                    RedactReturnValue([data |-> PartialData(c), err |-> "read error"])]
    /\ callPc' = [callPc EXCEPT ![c] = "returned"]
    /\ UNCHANGED <<args, chain, drain, issued, gor, pendingRedactions, redactionListMut,
                   allRedactions, heapR, heapF, getPc, get, resetPc,
                   resetsStarted, getsLeft, resetsLeft>>

\* a Redact that reads its output from a buffer shared by the calls: a call
\* that ends while another one is draining returns that one's output
RedactReturnSharedBuffer(c) ==
    /\ callPc[c] = "drain"
    /\ issued[c] = Len(CallRedactions(c))
    /\ LET others == {d \in Callers \ {c} : callPc[d] = "drain"}
           from == IF others = {} THEN c ELSE CHOOSE d \in others : TRUE
       IN  result' = [result EXCEPT ![c] =
                        RedactReturnValue([data |-> drain[from].out, err |-> NIL])]
    /\ callPc' = [callPc EXCEPT ![c] = "returned"]
    /\ UNCHANGED <<args, chain, drain, issued, gor, pendingRedactions, redactionListMut,
                   allRedactions, heapR, heapF, getPc, get, resetPc,
                   resetsStarted, getsLeft, resetsLeft>>

\* Redact lines 66-71: the drain reaches the end of the stream
RedactReturn(c) ==
    /\ callPc[c] = "drain"
    /\ issued[c] = Len(CallRedactions(c))
    /\ result' = [result EXCEPT ![c] =
                    RedactReturnValue([data |-> drain[c].out,
                                       err |-> NIL])]
    /\ callPc' = [callPc EXCEPT ![c] = "returned"]
    /\ UNCHANGED <<args, chain, drain, issued, gor, pendingRedactions, redactionListMut,
                   allRedactions, heapR, heapF, getPc, get, resetPc,
                   resetsStarted, getsLeft, resetsLeft>>

----------------------------------------------------------------------------
(* The ledger *)

\* m[k], the nil slice when k is not a key
Lookup(m, k) == IF k \in DOMAIN m THEN m[k] ELSE <<>>

\* m[k] = append(m[k], r)
MapAppend(m, k, r) ==
    IF k \in DOMAIN m THEN [m EXCEPT ![k] = Append(@, r)] ELSE m @@ (k :> <<r>>)

\* m[k] = []Redaction{r}: the list is replaced, not extended
MapOverwrite(m, k, r) ==
    IF k \in DOMAIN m THEN [m EXCEPT ![k] = <<r>>] ELSE m @@ (k :> <<r>>)

EmptyMap == <<>>

\* the number of records in the lists of m under the keys K
RECURSIVE TotalOver(_, _)
TotalOver(m, K) ==
    IF K = {} THEN 0
    ELSE LET k == CHOOSE x \in K : TRUE
         IN  Len(m[k]) + TotalOver(m, K \ {k})

\* the number of records in all the lists of a map
Total(m) == TotalOver(m, DOMAIN m)

\* an append goroutine that goes on without taking the mutex
GoNoLock(g) ==
    /\ gor[g].pc = "spawned"
    /\ gor' = [gor EXCEPT ![g].pc = "byRedactor"]
    /\ UNCHANGED <<args, callPc, chain, drain, issued, result, pendingRedactions,
                   redactionListMut, allRedactions, heapR, heapF, getPc, get,
                   resetPc, resetsStarted, getsLeft, resetsLeft>>

\* line 297: the goroutine takes the mutex
GoLock(g) ==
    /\ gor[g].pc = "spawned"
    /\ redactionListMut = NIL
    /\ redactionListMut' = g
    /\ gor' = [gor EXCEPT ![g].pc = "byRedactor"]
    /\ UNCHANGED <<args, callPc, chain, drain, issued, result, pendingRedactions,
                   allRedactions, heapR, heapF, getPc, get, resetPc,
                   resetsStarted, getsLeft, resetsLeft>>

\* m[k] = append([]Redaction{r}, m[k]...): the record is put first
MapPrepend(m, k, r) ==
    IF k \in DOMAIN m THEN [m EXCEPT ![k] = <<r>> \o @] ELSE m @@ (k :> <<r>>)

\* line 300 with the record put at the head of its list
GoByRedactorPrepend(g) ==
    /\ gor[g].pc = "byRedactor"
    /\ heapR' = [heapR EXCEPT ![allRedactions.ByRedactor] =
                    MapPrepend(@, gor[g].redaction.RedactorName, gor[g].redaction)]
    /\ gor' = [gor EXCEPT ![g].pc = "byFile", ![g].sawR = allRedactions.ByRedactor]
    /\ UNCHANGED <<args, callPc, chain, drain, issued, result, pendingRedactions,
                   redactionListMut, allRedactions, heapF, getPc, get, resetPc,
                   resetsStarted, getsLeft, resetsLeft>>

\* line 300
GoByRedactor(g) ==
    /\ gor[g].pc = "byRedactor"
    /\ heapR' = [heapR EXCEPT ![allRedactions.ByRedactor] =
                    MapAppend(@, gor[g].redaction.RedactorName, gor[g].redaction)]
    /\ gor' = [gor EXCEPT ![g].pc = "byFile", ![g].sawR = allRedactions.ByRedactor]
    /\ UNCHANGED <<args, callPc, chain, drain, issued, result, pendingRedactions,
                   redactionListMut, allRedactions, heapF, getPc, get, resetPc,
                   resetsStarted, getsLeft, resetsLeft>>

\* line 301 with the list of the file replaced instead of extended
GoByFileOverwrite(g) ==
    /\ gor[g].pc = "byFile"
    /\ heapF' = [heapF EXCEPT ![allRedactions.ByFile] =
                    MapOverwrite(@, gor[g].redaction.File, gor[g].redaction)]
    /\ gor' = [gor EXCEPT ![g].pc = "done", ![g].sawF = allRedactions.ByFile]
    /\ UNCHANGED <<args, callPc, chain, drain, issued, result, pendingRedactions,
                   redactionListMut, allRedactions, heapR, getPc, get, resetPc,
                   resetsStarted, getsLeft, resetsLeft>>

\* line 301 with the record filed under its RedactorName, not its File
GoByFileKeyedByName(g) ==
    /\ gor[g].pc = "byFile"
    /\ heapF' = [heapF EXCEPT ![allRedactions.ByFile] =
                    MapAppend(@, gor[g].redaction.RedactorName, gor[g].redaction)]
    /\ gor' = [gor EXCEPT ![g].pc = "done", ![g].sawF = allRedactions.ByFile]
    /\ UNCHANGED <<args, callPc, chain, drain, issued, result, pendingRedactions,
                   redactionListMut, allRedactions, heapR, getPc, get, resetPc,
                   resetsStarted, getsLeft, resetsLeft>>

\* line 301
GoByFile(g) ==
    /\ gor[g].pc = "byFile"
    /\ heapF' = [heapF EXCEPT ![allRedactions.ByFile] =
                    MapAppend(@, gor[g].redaction.File, gor[g].redaction)]
    /\ gor' = [gor EXCEPT ![g].pc = "done", ![g].sawF = allRedactions.ByFile]
    /\ UNCHANGED <<args, callPc, chain, drain, issued, result, pendingRedactions,
                   redactionListMut, allRedactions, heapR, getPc, get, resetPc,
                   resetsStarted, getsLeft, resetsLeft>>

\* an append goroutine that goes on to its Unlock without calling Done
GoSkipDone(g) ==
    /\ gor[g].pc = "done"
    /\ gor' = [gor EXCEPT ![g].pc = "unlock"]
    /\ UNCHANGED <<args, callPc, chain, drain, issued, result, pendingRedactions,
                   redactionListMut, allRedactions, heapR, heapF, getPc, get,
                   resetPc, resetsStarted, getsLeft, resetsLeft>>

\* an append goroutine that calls Done twice
GoDoneTwice(g) ==
    /\ gor[g].pc = "done"
    /\ pendingRedactions' = pendingRedactions - 2
    /\ gor' = [gor EXCEPT ![g].pc = "unlock"]
    /\ UNCHANGED <<args, callPc, chain, drain, issued, result, redactionListMut,
                   allRedactions, heapR, heapF, getPc, get, resetPc,
                   resetsStarted, getsLeft, resetsLeft>>

\* line 299, deferred: pendingRedactions.Done()
GoDone(g) ==
    /\ gor[g].pc = "done"
    /\ pendingRedactions' = pendingRedactions - 1
    /\ gor' = [gor EXCEPT ![g].pc = "unlock"]
    /\ UNCHANGED <<args, callPc, chain, drain, issued, result, redactionListMut,
                   allRedactions, heapR, heapF, getPc, get, resetPc,
                   resetsStarted, getsLeft, resetsLeft>>

\* line 298, deferred: redactionListMut.Unlock()
GoUnlock(g) ==
    /\ gor[g].pc = "unlock"
    /\ redactionListMut' = NIL
    /\ gor' = [gor EXCEPT ![g].pc = "finished"]
    /\ UNCHANGED <<args, callPc, chain, drain, issued, result, pendingRedactions,
                   allRedactions, heapR, heapF, getPc, get, resetPc,
                   resetsStarted, getsLeft, resetsLeft>>

\* the number of ResetRedactionList calls that have returned
ResetsDone == IF resetPc = "idle" THEN resetsStarted ELSE resetsStarted - 1

\* no GetRedactionList call yet
NoGet ==
    [issuedAtCall |-> {}, returnedAtCall |-> {}, resetsDoneAtCall |-> -1,
     resetsStartedAtReturn |-> -1, returned |-> FALSE,
     value |-> [ByRedactor |-> -1, ByFile |-> -1],
     atReturn |-> [ByRedactor |-> EmptyMap, ByFile |-> EmptyMap]]

\* GetRedactionList is called: what had been issued by then is noted
GetCall ==
    /\ getPc = "idle"
    /\ getsLeft > 0
    /\ getsLeft' = getsLeft - 1
    /\ get' = [issuedAtCall |-> DOMAIN gor,
               returnedAtCall |-> {c \in Callers : callPc[c] = "returned"},
               resetsDoneAtCall |-> ResetsDone,
               resetsStartedAtReturn |-> -1,
               returned |-> FALSE,
               value |-> [ByRedactor |-> -1, ByFile |-> -1],
               atReturn |-> [ByRedactor |-> EmptyMap, ByFile |-> EmptyMap]]
    /\ getPc' = "wait"
    /\ UNCHANGED <<args, callPc, chain, drain, issued, result, gor, pendingRedactions,
                   redactionListMut, allRedactions, heapR, heapF, resetPc,
                   resetsStarted, resetsLeft>>

\* a GetRedactionList that does not wait for the pending appends
GetSkipWait ==
    /\ getPc = "wait"
    /\ getPc' = "lock"
    /\ UNCHANGED <<args, callPc, chain, drain, issued, result, gor, pendingRedactions,
                   redactionListMut, allRedactions, heapR, heapF, get, resetPc,
                   resetsStarted, getsLeft, resetsLeft>>

\* line 75: pendingRedactions.Wait() returns when the counter is zero
GetWait ==
    /\ getPc = "wait"
    /\ pendingRedactions = 0
    /\ getPc' = "lock"
    /\ UNCHANGED <<args, callPc, chain, drain, issued, result, gor, pendingRedactions,
                   redactionListMut, allRedactions, heapR, heapF, get, resetPc,
                   resetsStarted, getsLeft, resetsLeft>>

\* line 76
GetLock ==
    /\ getPc = "lock"
    /\ redactionListMut = NIL
    /\ redactionListMut' = "get"
    /\ getPc' = "locked"
    /\ UNCHANGED <<args, callPc, chain, drain, issued, result, gor, pendingRedactions,
                   allRedactions, heapR, heapF, get, resetPc,
                   resetsStarted, getsLeft, resetsLeft>>

\* lines 77-78: the struct is returned, its two fields refer to the maps of
\* allRedactions, and the mutex is released
GetReturn ==
    /\ getPc = "locked"
    /\ get' = [get EXCEPT !.returned = TRUE,
                          !.resetsStartedAtReturn = resetsStarted,
                          !.value = allRedactions,
                          !.atReturn = [ByRedactor |-> heapR[allRedactions.ByRedactor],
                                        ByFile |-> heapF[allRedactions.ByFile]]]
    /\ redactionListMut' = NIL
    /\ getPc' = "idle"
    /\ UNCHANGED <<args, callPc, chain, drain, issued, result, gor, pendingRedactions,
                   allRedactions, heapR, heapF, resetPc,
                   resetsStarted, getsLeft, resetsLeft>>

\* a ResetRedactionList that first waits for the pending appends
ResetWaitLock ==
    /\ resetPc = "idle"
    /\ resetsLeft > 0
    /\ pendingRedactions = 0
    /\ redactionListMut = NIL
    /\ redactionListMut' = "reset"
    /\ resetPc' = "byRedactor"
    /\ resetsStarted' = resetsStarted + 1
    /\ resetsLeft' = resetsLeft - 1
    /\ UNCHANGED <<args, callPc, chain, drain, issued, result, gor, pendingRedactions,
                   allRedactions, heapR, heapF, getPc, get, getsLeft>>

\* a ResetRedactionList that does not take the mutex
ResetNoLock ==
    /\ resetPc = "idle"
    /\ resetsLeft > 0
    /\ resetPc' = "byRedactor"
    /\ resetsStarted' = resetsStarted + 1
    /\ resetsLeft' = resetsLeft - 1
    /\ UNCHANGED <<args, callPc, chain, drain, issued, result, gor, pendingRedactions,
                   redactionListMut, allRedactions, heapR, heapF, getPc, get,
                   getsLeft>>

\* line 82: ResetRedactionList takes the mutex
ResetLock ==
    /\ resetPc = "idle"
    /\ resetsLeft > 0
    /\ redactionListMut = NIL
    /\ redactionListMut' = "reset"
    /\ resetPc' = "byRedactor"
    /\ resetsStarted' = resetsStarted + 1
    /\ resetsLeft' = resetsLeft - 1
    /\ UNCHANGED <<args, callPc, chain, drain, issued, result, gor, pendingRedactions,
                   allRedactions, heapR, heapF, getPc, get, getsLeft>>

\* lines 84-85: the ByRedactor field is set to a new, empty map
ResetByRedactor ==
    /\ resetPc = "byRedactor"
    /\ heapR' = heapR @@ (resetsStarted :> EmptyMap)
    /\ allRedactions' = [allRedactions EXCEPT !.ByRedactor = resetsStarted]
    /\ resetPc' = "byFile"
    /\ UNCHANGED <<args, callPc, chain, drain, issued, result, gor, pendingRedactions,
                   redactionListMut, heapF, getPc, get,
                   resetsStarted, getsLeft, resetsLeft>>

\* lines 84, 86: the ByFile field is set to a new, empty map
ResetByFile ==
    /\ resetPc = "byFile"
    /\ heapF' = heapF @@ (resetsStarted :> EmptyMap)
    /\ allRedactions' = [allRedactions EXCEPT !.ByFile = resetsStarted]
    /\ resetPc' = "unlock"
    /\ UNCHANGED <<args, callPc, chain, drain, issued, result, gor, pendingRedactions,
                   redactionListMut, heapR, getPc, get,
                   resetsStarted, getsLeft, resetsLeft>>

\* line 83, deferred: the mutex is released
ResetUnlock ==
    /\ resetPc = "unlock"
    /\ redactionListMut' = NIL
    /\ resetPc' = "idle"
    /\ UNCHANGED <<args, callPc, chain, drain, issued, result, gor, pendingRedactions,
                   allRedactions, heapR, heapF, getPc, get,
                   resetsStarted, getsLeft, resetsLeft>>

----------------------------------------------------------------------------
(* The calls the model makes *)

MaxGets == 1
MaxResets == 1
MaxRules == 2

Rule(name, file, files, regex, values, multiLine, yaml) ==
    [isNil |-> FALSE, Name |-> name, File |-> file, Files |-> files,
     Regex |-> regex, Values |-> values, MultiLine |-> multiLine, Yaml |-> yaml]

\* a nil entry of the additionalRedactors slice
NilRedact == [isNil |-> TRUE]

\* custom patterns
KeyValue == KeyMaskEnd("(k=)(?P<mask>.*)(;)", "k=", ";")
Uncaptured == Pat("k=(?P<mask>v)", <<{"k="}, {"v"}>>, <<Grp("mask", 2, 2)>>)
DropKey == Pat("(?P<drop>k=)(?P<val>v)(;)", <<{"k="}, {"v"}, {";"}>>,
               <<Grp("drop", 1, 1), Grp("val", 2, 2), Grp("", 3, 3)>>)
NoGroups == Pat("k=v", <<{"k="}, {"v"}>>, <<>>)
Invalid == BadPat("(")

\* input texts
PwdText == << <<"Pwd=", "s3cr3t", ";">> >>
TwoLines == << <<"Pwd=", "s3cr3t", ";">>, <<"k=", "v", ";">> >>
NameValue == << <<"name:password">>, <<"value:", "s3cr3t", "\"">>, <<"k=", "v", ";", "v">> >>

Call(input, path, rules, streamFails) ==
    [input |-> input, path |-> path, rules |-> rules, streamFails |-> streamFails]

LiteralRule == Rule("r", "", <<>>, <<>>, <<"v">>, <<>>, <<>>)

BadRegexRule == Rule("", "", <<>>, <<Invalid>>, <<>>, <<>>, <<>>)

\* the Redact calls of the ledger specification: two calls that report two
\* redactions each, or one such call and one whose stream fails, without
\* resets; and with resets, one such call and one that fails to build, or
\* two calls that report one redaction each
LedgerCalls ==
    {[a |-> [c1 |-> Call(TwoLines, "logs/a.log", <<LiteralRule>>, FALSE),
             c2 |-> Call(TwoLines, "logs/a.log", <<LiteralRule>>, FALSE)],
      gets |-> MaxGets, resets |-> 0],
     [a |-> [c1 |-> Call(TwoLines, "logs/a.log", <<LiteralRule>>, FALSE),
             c2 |-> Call(PwdText, "config/app.yaml", <<>>, TRUE)],
      gets |-> MaxGets, resets |-> 0],
     [a |-> [c1 |-> Call(TwoLines, "logs/a.log", <<LiteralRule>>, FALSE),
             c2 |-> Call(PwdText, "logs/a.log", <<BadRegexRule>>, FALSE)],
      gets |-> MaxGets, resets |-> MaxResets],
     [a |-> [c1 |-> Call(PwdText, "logs/a.log", <<>>, FALSE),
             c2 |-> Call(PwdText, "config/app.yaml", <<>>, FALSE)],
      gets |-> MaxGets, resets |-> MaxResets]}

\* the rules of the build specification
RuleSet ==
    {LiteralRule,
     Rule("", "", <<>>, <<KeyValue, DropKey>>, <<"v">>, <<>>, <<"spec.key">>),
     Rule("n", "logs/*.log", <<>>, <<Uncaptured>>, <<>>,
          <<[Selector |-> Plain("Pwd", "Pwd="), Redactor |-> KeyValue]>>, <<>>),
     Rule("", "", <<"config/*", "[">>, <<KeyValue>>, <<>>, <<>>, <<>>),
     BadRegexRule,
     Rule("m", "config/*", <<>>, <<>>, <<"s3cr3t">>,
          <<[Selector |-> KeyValue, Redactor |-> Invalid]>>, <<>>),
     Rule("r", "", <<"*.log", "config/*">>, <<NoGroups>>, <<>>, <<>>, <<>>),
     NilRedact}

\* the sequences of at most n rules
RECURSIVE RuleLists(_)
RuleLists(n) ==
    IF n = 0 THEN {<<>>}
    ELSE RuleLists(n - 1)
             \cup {Append(l, r) : l \in {x \in RuleLists(n - 1) : Len(x) = n - 1},
                                  r \in RuleSet}

\* the Redact calls of the build specification
BuildCalls ==
    {Call(input, path, rules, FALSE) :
        input \in {TwoLines, NameValue}, path \in Paths, rules \in RuleLists(MaxRules)}
    \cup {Call(TwoLines, path, <<LiteralRule>>, TRUE) : path \in Paths}

InitLedger ==
    /\ callPc = [c \in Callers |-> "start"]
    /\ chain = [c \in Callers |-> <<>>]
    /\ drain = [c \in Callers |-> [out |-> <<>>, redactions |-> <<>>]]
    /\ issued = [c \in Callers |-> 0]
    /\ result = [c \in Callers |-> [bytes |-> <<>>, err |-> NIL]]
    /\ gor = <<>>
    /\ pendingRedactions = 0
    /\ redactionListMut = NIL
    /\ allRedactions = [ByRedactor |-> 0, ByFile |-> 0]
    /\ heapR = (0 :> EmptyMap)
    /\ heapF = (0 :> EmptyMap)
    /\ getPc = "idle"
    /\ get = NoGet
    /\ resetPc = "idle"
    /\ resetsStarted = 0

Init ==
    /\ InitLedger
    /\ \E l \in LedgerCalls :
          /\ args = l.a
          /\ getsLeft = l.gets
          /\ resetsLeft = l.resets

\* one Redact call on each of the build inputs, next to a call without
\* custom rules or a call that fails to build, and no ledger reader
InitBuild ==
    /\ InitLedger
    /\ args \in {[c1 |-> a, c2 |-> b] :
                    a \in BuildCalls,
                    b \in {Call(TwoLines, "logs/a.log", <<>>, FALSE),
                           Call(PwdText, "logs/a.log", <<BadRegexRule>>, FALSE)}}
    /\ getsLeft = 0
    /\ resetsLeft = 0

Next ==
    \/ \E c \in Callers : RedactStart(c)
    \/ \E c \in Callers : addRedaction(c)
    \/ \E c \in Callers : RedactReadError(c)
    \/ \E c \in Callers : RedactReturn(c)
    \/ \E g \in DOMAIN gor : GoLock(g)
    \/ \E g \in DOMAIN gor : GoByRedactor(g)
    \/ \E g \in DOMAIN gor : GoByFile(g)
    \/ \E g \in DOMAIN gor : GoDone(g)
    \/ \E g \in DOMAIN gor : GoUnlock(g)
    \/ GetCall
    \/ GetWait
    \/ GetLock
    \/ GetReturn
    \/ ResetLock
    \/ ResetByRedactor
    \/ ResetByFile
    \/ ResetUnlock

Spec == Init /\ [][Next]_vars

\* the calls of the fair specification: a call that reports two redactions
\* and whose stream can fail, next to a call that fails to build
FairCalls ==
    [c1 |-> Call(TwoLines, "logs/a.log", <<LiteralRule>>, TRUE),
     c2 |-> Call(PwdText, "config/app.yaml", <<BadRegexRule>>, FALSE)]

InitFair ==
    /\ InitLedger
    /\ args = FairCalls
    /\ getsLeft = MaxGets
    /\ resetsLeft = MaxResets

\* a step of an append goroutine
GoStep ==
    \E g \in DOMAIN gor :
        GoLock(g) \/ GoByRedactor(g) \/ GoByFile(g) \/ GoDone(g) \/ GoUnlock(g)

\* a step of a GetRedactionList call that has begun
GetStep == GetWait \/ GetLock \/ GetReturn

\* a step of a ResetRedactionList call that holds the mutex
ResetStep == ResetByRedactor \/ ResetByFile \/ ResetUnlock

\* the scheduler runs every goroutine that can run: the append goroutines,
\* and the callers that are inside GetRedactionList or ResetRedactionList
Fairness ==
    /\ WF_vars(GoStep)
    /\ WF_vars(GetStep)
    /\ WF_vars(ResetStep)

SpecFair == InitFair /\ [][Next]_vars /\ Fairness

\* the steps of the Redact calls alone
NextBuild ==
    \/ \E c \in Callers : RedactStart(c)
    \/ \E c \in Callers : addRedaction(c)
    \/ \E c \in Callers : RedactReadError(c)
    \/ \E c \in Callers : RedactReturn(c)

SpecBuild == InitBuild /\ [][NextBuild]_vars

----------------------------------------------------------------------------
(* Properties of the ledger *)

\* the number of times r is in the list m[k]
CountIn(m, k, r) ==
    Cardinality({j \in 1..Len(Lookup(m, k)) : Lookup(m, k)[j] = r})

\* the goroutines noted by the last GetRedactionList call that hold the
\* record r and were started after the last reset began
NotedSince(r) ==
    {h \in get.issuedAtCall :
        /\ gor[h].redaction = r
        /\ gor[h].resetsStartedAtIssue = get.resetsStartedAtReturn}

\* C1: read-after-write visibility. Every redaction whose addRedaction call
\* returned before GetRedactionList was called, with no reset begun between
\* that call and the return of GetRedactionList, is in the value returned,
\* under ByRedactor[its RedactorName] and under ByFile[its File], as many
\* times as it was issued.
C1_ReadAfterWrite ==
    get.returned =>
        \A g \in get.issuedAtCall :
            gor[g].resetsStartedAtIssue = get.resetsStartedAtReturn =>
                LET r == gor[g].redaction
                IN  /\ CountIn(get.atReturn.ByRedactor, r.RedactorName, r)
                           >= Cardinality(NotedSince(r))
                    /\ CountIn(get.atReturn.ByFile, r.File, r)
                           >= Cardinality(NotedSince(r))

\* a GetRedactionList call that found three redactions issued, none of them
\* followed by a reset, has returned
C1_Witness ==
    /\ get.returned
    /\ Cardinality(get.issuedAtCall) >= 3
    /\ \A g \in get.issuedAtCall :
           gor[g].resetsStartedAtIssue = get.resetsStartedAtReturn

\* C2: with no reset, a GetRedactionList called after all N Redact calls have
\* returned gives a ledger with as many records as were issued, N*R when
\* each call issued R, in the ByFile lists and in the ByRedactor lists, every
\* record under its own File and RedactorName, none lost and none twice.
C2_ExactlyNTimesR ==
    (get.returned /\ get.returnedAtCall = Callers /\ resetsStarted = 0) =>
        LET byR == get.atReturn.ByRedactor
            byF == get.atReturn.ByFile
        IN  /\ \A R \in 0..4 :
                   (\A c \in Callers : issued[c] = R) =>
                       /\ Total(byF) = Cardinality(Callers) * R
                       /\ Total(byR) = Cardinality(Callers) * R
            /\ Total(byF) = Cardinality(DOMAIN gor)
            /\ Total(byR) = Cardinality(DOMAIN gor)
            /\ \A k \in DOMAIN byR : \A j \in 1..Len(byR[k]) : byR[k][j].RedactorName = k
            /\ \A k \in DOMAIN byF : \A j \in 1..Len(byF[k]) : byF[k][j].File = k
            /\ \A g \in DOMAIN gor :
                   LET r == gor[g].redaction
                       n == Cardinality({h \in DOMAIN gor : gor[h].redaction = r})
                   IN  /\ CountIn(byR, r.RedactorName, r) = n
                       /\ CountIn(byF, r.File, r) = n

\* two Redact calls that issued two redactions each have returned, and the
\* GetRedactionList called after them has returned four records
C2_Witness ==
    /\ get.returned
    /\ get.returnedAtCall = Callers
    /\ resetsStarted = 0
    /\ \A c \in Callers : issued[c] = 2 /\ result[c].err = NIL
    /\ Total(get.atReturn.ByFile) = 4

\* C3: the value GetRedactionList returned is a copy: what its ByRedactor and
\* ByFile hold stays what they held when it returned.
C3_ReturnedValueIsCopy ==
    get.returned =>
        /\ heapR[get.value.ByRedactor] = get.atReturn.ByRedactor
        /\ heapF[get.value.ByFile] = get.atReturn.ByFile

\* C4: a reset clears both indices atomically. The two maps of a value
\* GetRedactionList returned are of the same reset, an append goroutine
\* writes to two maps of the same reset, and whoever is about to read
\* allRedactions under the mutex finds both fields of the same reset.
C4_ResetAtomic ==
    /\ get.returned => get.value.ByRedactor = get.value.ByFile
    /\ getPc = "locked" => allRedactions.ByRedactor = allRedactions.ByFile
    /\ \A g \in DOMAIN gor :
           /\ gor[g].pc \in {"byRedactor", "byFile"} =>
                  allRedactions.ByRedactor = allRedactions.ByFile
           /\ gor[g].pc \in {"done", "unlock", "finished"} =>
                  gor[g].sawR = gor[g].sawF

\* one goroutine wrote before a reset, one after it, and a GetRedactionList
\* returned the maps of after the reset
C4_Witness ==
    /\ get.returned
    /\ get.value.ByRedactor = 1
    /\ \E g, h \in DOMAIN gor :
           /\ gor[g].pc = "finished" /\ gor[g].sawF = 0
           /\ gor[h].pc = "finished" /\ gor[h].sawF = 1

\* C5: ResetRedactionList does not wait for outstanding appends. Whenever it
\* is called and the mutex is free it goes on, whatever the pending counter.
C5_ResetDoesNotWait ==
    (resetPc = "idle" /\ resetsLeft > 0 /\ redactionListMut = NIL) => ENABLED ResetLock

\* every redaction was issued before the reset was called, a GetRedactionList
\* called after the reset had returned gives a ledger that is not empty
C5_Witness ==
    /\ get.returned
    /\ get.resetsDoneAtCall = 1
    /\ resetsStarted = 1
    /\ DOMAIN gor # {}
    /\ \A g \in DOMAIN gor : gor[g].resetsStartedAtIssue = 0
    /\ Total(get.atReturn.ByFile) > 0
    /\ Total(get.atReturn.ByRedactor) > 0

----------------------------------------------------------------------------
(* Properties of Redact and of the building of its chain *)

\* the Redact call of c got past the building of its redactors
Built(c) ==
    \/ callPc[c] = "drain"
    \/ callPc[c] = "returned" /\ result[c].err \in {NIL, "read error"}

\* the positions in the chain of c of the custom redactors
Custom(c) == {k \in 1..Len(chain[c]) : chain[c][k].rule >= 0}

\* C6: within one Redact call, no two custom redactors have the same name.
C6_UniqueNames ==
    \A c \in Callers :
        \A i, j \in Custom(c) : i # j => chain[c][i].name # chain[c][j].name

\* piece p of the pattern lies in a group with one of these names
Covered(re, p, names) ==
    \E i \in 1..Len(re.groups) :
        /\ re.groups[i].name \in names
        /\ re.groups[i].from <= p
        /\ p <= re.groups[i].to

\* piece p lies in some capture group
Captures(re, p) ==
    \E i \in 1..Len(re.groups) : re.groups[i].from <= p /\ p <= re.groups[i].to

\* a mask group starts at piece p, inside no other mask group
MaskStarts(re, p) ==
    /\ \E i \in 1..Len(re.groups) : re.groups[i].name = "mask" /\ re.groups[i].from = p
    /\ ~\E i \in 1..Len(re.groups) :
           /\ re.groups[i].name = "mask"
           /\ re.groups[i].from < p
           /\ p <= re.groups[i].to

\* what is left of the token tok that piece p matched: the placeholder once
\* for the text of a mask group, nothing for the text of a drop group, the
\* token itself inside another group, and outside every group the token
\* itself or nothing
Survives(re, p, tok, keepUncaptured) ==
    IF Covered(re, p, {"mask"}) THEN (IF MaskStarts(re, p) THEN <<MASK_TEXT>> ELSE <<>>)
    ELSE IF Covered(re, p, {"drop"}) THEN <<>>
    ELSE IF Captures(re, p) \/ keepUncaptured THEN <<tok>>
    ELSE <<>>

\* the line from position j on, redacted as the claim has it
RECURSIVE PreservedFrom(_, _, _, _)
PreservedFrom(re, line, j, keepUncaptured) ==
    IF j > Len(line) THEN <<>>
    ELSE IF MatchesAt(re, line, j)
         THEN Flatten([p \in 1..Len(re.pieces) |->
                          Survives(re, p, line[j + p - 1], keepUncaptured)])
                  \o PreservedFrom(re, line, j + Len(re.pieces), keepUncaptured)
         ELSE <<line[j]>> \o PreservedFrom(re, line, j + 1, keepUncaptured)

\* every line a regex redactor of a chain redacts comes out as the claim has it
RedactedAsClaimed(keepUncaptured) ==
    \A c \in Callers :
        Built(c) =>
            LET texts == ChainTexts(chain[c], args[c].input)
            IN  \A k \in 1..Len(chain[c]) : \A n \in 1..Len(args[c].input) :
                    (chain[c][k].kind \in {"regex", "multiLine"}
                        /\ StageRedacts(chain[c][k], texts[k], n)) =>
                        texts[k + 1][n]
                            = PreservedFrom(chain[c][k].re, texts[k][n], 1, keepUncaptured)

Applies(path, redact) ==
    \/ redact.File = "" /\ redact.Files = <<>>
    \/ redact.File # "" /\ GlobMatch(redact.File, path)
    \/ \E k \in 1..Len(redact.Files) : GlobMatch(redact.Files[k], path)

\* the entries of a rule
Entries(redact) ==
    Len(redact.Regex) + Len(redact.Values) + Len(redact.MultiLine) + Len(redact.Yaml)

\* the redactors rule i gave to the chain of c
Contributed(c, i) == {k \in 1..Len(chain[c]) : chain[c][k].rule = i - 1}

\* the rules of the call of c that are not nil
RulesOf(c) == {i \in 1..Len(args[c].rules) : ~args[c].rules[i].isNil}

\* C8 as stated: a rule gives its redactors to the call if and only if it
\* has no glob or the path matches one of its globs.
C8_ContributesIffApplies ==
    \A c \in Callers :
        callPc[c] # "start" =>
            \A i \in RulesOf(c) :
                (Contributed(c, i) # {}) <=> Applies(args[c].path, args[c].rules[i])

\* C8 as amended: a rule whose globs all fail to match gives no redactor;
\* when the building succeeds, a rule that has no glob or a glob that
\* matches gives one redactor for each of its entries.
C8_ContributesIffAppliesWhenBuilt ==
    \A c \in Callers :
        callPc[c] # "start" =>
            \A i \in RulesOf(c) :
                LET redact == args[c].rules[i]
                IN  /\ ~Applies(args[c].path, redact) => Contributed(c, i) = {}
                    /\ (Built(c) /\ Applies(args[c].path, redact)) =>
                           Cardinality(Contributed(c, i)) = Entries(redact)

\* a call was built with a rule whose glob in Files matches the path and a
\* rule whose glob does not match it
C8_Witness ==
    \E c \in Callers :
        /\ Built(c)
        /\ \E i, j \in RulesOf(c) :
               /\ args[c].rules[i].Files # <<>>
               /\ Applies(args[c].path, args[c].rules[i])
               /\ Contributed(c, i) # {}
               /\ ~Applies(args[c].path, args[c].rules[j])
               /\ Contributed(c, j) = {}

\* the building of the redactors of the call of c fails: a glob of a rule
\* is invalid, or a pattern of a rule that applies is
BuildFails(c) ==
    \E i \in RulesOf(c) :
        LET redact == args[c].rules[i]
        IN  \/ ~GlobValid(redact.File)
            \/ \E k \in 1..Len(redact.Files) : ~GlobValid(redact.Files[k])
            \/ /\ Applies(args[c].path, redact)
               /\ \/ \E k \in 1..Len(redact.Regex) : ~redact.Regex[k].valid
                  \/ \E k \in 1..Len(redact.MultiLine) :
                         \/ ~redact.MultiLine[k].Selector.valid
                         \/ ~redact.MultiLine[k].Redactor.valid

\* the text after the first k redactors of rs
RECURSIVE Pipe(_, _, _)
Pipe(rs, k, text) ==
    IF k = 0 THEN text ELSE StageOut(rs[k], Pipe(rs, k - 1, text))

\* C9: Redact returns the whole output of the chain and no error, or no
\* bytes and an error; a failure to build and a failure of the stream both
\* give no bytes and an error.
C9_AllOrNothing ==
    \A c \in Callers :
        callPc[c] = "returned" =>
            /\ result[c].err = NIL =>
                   result[c].bytes = <<Pipe(chain[c], Len(chain[c]), args[c].input)>>
            /\ result[c].err # NIL => result[c].bytes = <<>>
            /\ BuildFails(c) => result[c].err # NIL
            /\ (result[c].err = NIL) \/ BuildFails(c) \/ args[c].streamFails

\* the stream failed after a line had been read, and a call failed to build
C9_Witness ==
    /\ \E c \in Callers :
           /\ callPc[c] = "returned"
           /\ result[c].err = "read error"
           /\ issued[c] > 0
    /\ \E c \in Callers :
           /\ callPc[c] = "returned"
           /\ BuildFails(c)

\* what tells a redactor from the others: its kind, its rule and its entry
Describe(r) ==
    CASE r.kind = "regex"     -> <<"regex", r.rule, r.re.src>>
      [] r.kind = "literal"   -> <<"literal", r.rule, r.value>>
      [] r.kind = "multiLine" -> <<"multiLine", r.rule, r.sel.src, r.re.src>>
      [] OTHER                -> <<"yaml", r.rule, r.yamlPath>>

\* the chain as the claim orders it
ClaimedOrder(path, rules) ==
    [k \in 1..Len(singleLines) |-> <<"regex", -1, singleLines[k].src>>]
    \o [k \in 1..Len(doubleLines) |->
           <<"multiLine", -1, doubleLines[k].line1.src, doubleLines[k].line2.src>>]
    \o Flatten([i \in 1..Len(rules) |->
           IF rules[i].isNil \/ ~Applies(path, rules[i]) THEN <<>>
           ELSE [k \in 1..Len(rules[i].Regex) |-> <<"regex", i - 1, rules[i].Regex[k].src>>]
                \o [k \in 1..Len(rules[i].Values) |-> <<"literal", i - 1, rules[i].Values[k]>>]
                \o [k \in 1..Len(rules[i].MultiLine) |->
                       <<"multiLine", i - 1, rules[i].MultiLine[k].Selector.src,
                         rules[i].MultiLine[k].Redactor.src>>]
                \o [k \in 1..Len(rules[i].Yaml) |-> <<"yaml", i - 1, rules[i].Yaml[k]>>]])

\* C10: the chain is the built-in single-line rules, the built-in multi-line
\* rules, then the custom redactors in rule order, within a rule regex,
\* values, multiLine, yaml; the first redactor reads the input, each later
\* one the output of the one before, and Redact returns the output of the last.
C10_ChainOrder ==
    \A c \in Callers :
        Built(c) =>
            /\ [k \in 1..Len(chain[c]) |-> Describe(chain[c][k])]
                   = ClaimedOrder(args[c].path, args[c].rules)
            /\ drain[c].out = Pipe(chain[c], Len(chain[c]), args[c].input)
            /\ (callPc[c] = "returned" /\ result[c].err = NIL) =>
                   result[c].bytes = <<Pipe(chain[c], Len(chain[c]), args[c].input)>>

\* a call with two rules that apply, one of them with entries of three
\* kinds, has returned its output, redacted by built-in and custom redactors
C10_Witness ==
    \E c \in Callers :
        /\ callPc[c] = "returned"
        /\ result[c].err = NIL
        /\ Cardinality({chain[c][k].rule : k \in Custom(c)}) = 2
        /\ Cardinality({chain[c][k].kind : k \in Custom(c)}) >= 3
        /\ \E i, j \in 1..Len(drain[c].redactions) :
               /\ drain[c].redactions[i].RedactorName = chain[c][Len(singleLines)].name
               /\ \E k \in Custom(c) :
                      drain[c].redactions[j].RedactorName = chain[c][k].name

----------------------------------------------------------------------------
(* Properties of the critical sections of the ledger *)

\* who is between its Lock and its Unlock of redactionListMut
InSection ==
    {g \in DOMAIN gor : gor[g].pc \in {"byRedactor", "byFile", "done", "unlock"}}
        \cup (IF getPc = "locked" THEN {"get"} ELSE {})
        \cup (IF resetPc \in {"byRedactor", "byFile", "unlock"} THEN {"reset"} ELSE {})

\* the last record of the list m[k] is r
LastIs(m, k, r) == Len(Lookup(m, k)) > 0 /\ Lookup(m, k)[Len(Lookup(m, k))] = r

\* C11: ledger accesses are serialized. At most one of the append
\* goroutines, GetRedactionList and ResetRedactionList is inside the section
\* that reads or writes allRedactions, and it is the holder of the mutex;
\* between the two map updates of an append no other append and no reset
\* has touched the ledger: the maps are those the append found, its record
\* is still the last of its ByRedactor list and ByRedactor holds exactly one
\* record more than ByFile.
C11_WritesSerialized ==
    /\ Cardinality(InSection) <= 1
    /\ InSection \subseteq {redactionListMut}
    /\ \A g \in DOMAIN gor :
           gor[g].pc = "byFile" =>
               /\ allRedactions.ByRedactor = gor[g].sawR
               /\ allRedactions.ByFile = gor[g].sawR
               /\ LastIs(heapR[gor[g].sawR], gor[g].redaction.RedactorName,
                         gor[g].redaction)
               /\ Total(heapR[gor[g].sawR]) = Total(heapF[allRedactions.ByFile]) + 1

\* an append is between its two map updates while another append, a
\* GetRedactionList and a ResetRedactionList all want the mutex
C11_Witness ==
    /\ getPc = "lock"
    /\ resetPc = "idle" /\ resetsLeft > 0
    /\ \E g, h \in DOMAIN gor :
           /\ gor[g].pc = "byFile"
           /\ gor[h].pc = "spawned"

\* C12: appends are fire-and-forget. A Redact call that is draining its
\* chain can always take its next step, whoever holds the mutex and however
\* many of its appends are pending: when a redaction is left to issue,
\* addRedaction can run, and when none is left, Redact can return.
C12_FireAndForget ==
    \A c \in Callers :
        callPc[c] = "drain" =>
            IF issued[c] < Len(CallRedactions(c))
            THEN ENABLED addRedaction(c)
            ELSE ENABLED RedactReturn(c)

\* a Redact call has returned its output while ResetRedactionList holds the
\* mutex and none of the appends it issued has started to write
C12_Witness ==
    \E c \in Callers :
        /\ callPc[c] = "returned"
        /\ result[c].err = NIL
        /\ issued[c] >= 1
        /\ redactionListMut = "reset"
        /\ \A g \in DOMAIN gor : gor[g].caller = c => gor[g].pc = "spawned"

----------------------------------------------------------------------------
(* Isolation of the Redact calls *)

\* what a Redact call with the arguments a can return, from a alone: the
\* error of the build, or the output of its chain on its input, or, when
\* its stream can fail, the read error
Outcomes(a) ==
    LET b == RedactBuild(a.path, a.rules)
    IN  IF b.err # NIL THEN {[bytes |-> <<>>, err |-> b.err]}
        ELSE {[bytes |-> <<ChainOut(b.redactors, a.input)>>, err |-> NIL]}
                 \cup (IF a.streamFails
                       THEN {[bytes |-> <<>>, err |-> "read error"]}
                       ELSE {})

\* C13: isolation of concurrent calls. What a Redact call returned is an
\* outcome of its own arguments, whatever the other Redact call, the
\* GetRedactionList and the ResetRedactionList calls did meanwhile and
\* whatever the ledger holds.
C13_Isolation ==
    \A c \in Callers :
        callPc[c] = "returned" => result[c] \in Outcomes(args[c])

\* two Redact calls with different arguments have returned different
\* results, one of them its output, next to a reset and a
\* GetRedactionList, and the ledger is not empty
C13_Witness ==
    /\ \A c \in Callers : callPc[c] = "returned"
    /\ \E c \in Callers : result[c].err = NIL /\ result[c].bytes # <<>>
    /\ args["c1"] # args["c2"]
    /\ result["c1"] # result["c2"]
    /\ resetsStarted >= 1
    /\ get.returned
    /\ Total(heapF[allRedactions.ByFile]) > 0

----------------------------------------------------------------------------
(* The two indices as views of one set of records *)

\* the records in the lists of the map m
RecordsOf(m) == UNION {Range(m[k]) : k \in DOMAIN m}

\* the number of times r is in the lists of m
Occurs(m, r) ==
    Cardinality({p \in UNION {{<<k, j>> : j \in 1..Len(m[k])} : k \in DOMAIN m} :
                    m[p[1]][p[2]] = r})

\* byR and byF hold the same records as many times, each under its own key
SameRecords(byR, byF) ==
    /\ \A r \in RecordsOf(byR) \cup RecordsOf(byF) : Occurs(byR, r) = Occurs(byF, r)
    /\ \A k \in DOMAIN byR : \A j \in 1..Len(byR[k]) : byR[k][j].RedactorName = k
    /\ \A f \in DOMAIN byF : \A j \in 1..Len(byF[f]) : byF[f][j].File = f

\* the two maps of allRedactions hold the same records
IndicesAgree ==
    SameRecords(heapR[allRedactions.ByRedactor], heapF[allRedactions.ByFile])

\* C14 as stated: in every state in which no append goroutine holds the
\* mutex, ByRedactor and ByFile hold the same multiset of records, each
\* record under its RedactorName and under its File.
C14_IndicesAgreeUnlessAppending ==
    redactionListMut \notin DOMAIN gor => IndicesAgree

\* C14 as amended: in every state in which neither an append goroutine nor
\* ResetRedactionList holds the mutex, ByRedactor and ByFile hold the same
\* multiset of records, each record under its RedactorName and under its
\* File.
C14_IndicesAgreeUnlessWriting ==
    redactionListMut \notin DOMAIN gor \cup {"reset"} => IndicesAgree

\* the mutex is free after an append, then a reset, then another append,
\* and the ledger holds a record
C14_Witness ==
    /\ redactionListMut = NIL
    /\ resetPc = "idle"
    /\ resetsStarted = 1
    /\ Total(heapF[allRedactions.ByFile]) > 0
    /\ \E g, h \in DOMAIN gor :
           /\ gor[g].pc = "finished" /\ gor[g].sawF = 0
           /\ gor[h].pc = "finished" /\ gor[h].sawF = 1

----------------------------------------------------------------------------
(* The order of the records in the lists *)

\* the goroutine has made both its map updates
Applied(g) == gor[g].pc \in {"done", "unlock", "finished"}

\* a is somewhere before b in the list
Before(list, a, b) ==
    \E p, q \in 1..Len(list) : p < q /\ list[p] = a /\ list[q] = b

\* C15: ledger order follows issue order. When one Redact call issued the
\* redaction a and later the redaction b, and both were applied to the same
\* maps, a is before b in ByFile[file] when they are of the same file, and
\* in ByRedactor[name] when they are of the same redactor.
C15_IssueOrder ==
    \A c \in Callers :
        \A i, j \in 1..issued[c] :
            LET g == GorId(c, i)
                h == GorId(c, j)
                a == gor[g].redaction
                b == gor[h].redaction
            IN  (i < j /\ a # b /\ Applied(g) /\ Applied(h) /\ gor[g].sawF = gor[h].sawF) =>
                    /\ a.File = b.File =>
                           Before(heapF[gor[g].sawF][a.File], a, b)
                    /\ a.RedactorName = b.RedactorName =>
                           Before(heapR[gor[g].sawR][a.RedactorName], a, b)

----------------------------------------------------------------------------
(* The growth of the ledger *)

\* the list s is the beginning of the list t
IsPrefix(s, t) == Len(s) <= Len(t) /\ SubSeq(t, 1, Len(s)) = s

\* every list of m is the beginning of the list of n under the same key
MapGrows(m, n) == \A k \in DOMAIN m : k \in DOMAIN n /\ IsPrefix(m[k], n[k])

\* n is m with r added at the end of the list of k and nothing else changed
OneMore(m, n, k, r) ==
    /\ DOMAIN n = DOMAIN m \cup {k}
    /\ n[k] = Append(Lookup(m, k), r)
    /\ \A j \in DOMAIN m \ {k} : n[j] = m[j]

\* C16: monotonic growth. In a step that is not of a reset the lists of the
\* ledger only grow; the first map update of an append adds its record at
\* the end of the ByRedactor list of its name and changes nothing else, the
\* second adds it at the end of the ByFile list of its file and changes
\* nothing else; every other step of an append, of addRedaction, of Redact
\* and of GetRedactionList leaves the ledger as it is.
C16_MonotonicGrowth ==
    [][LET byR == allRedactions.ByRedactor
           byF == allRedactions.ByFile
           first == {g \in DOMAIN gor : gor[g].pc = "byRedactor" /\ gor'[g].pc = "byFile"}
           second == {g \in DOMAIN gor : gor[g].pc = "byFile" /\ gor'[g].pc = "done"}
       IN  resetPc' = resetPc =>
               /\ allRedactions' = allRedactions
               /\ MapGrows(heapR[byR], heapR'[byR])
               /\ MapGrows(heapF[byF], heapF'[byF])
               /\ \A g \in first :
                      /\ OneMore(heapR[byR], heapR'[byR],
                                 gor[g].redaction.RedactorName, gor[g].redaction)
                      /\ heapF' = heapF
               /\ \A g \in second :
                      /\ OneMore(heapF[byF], heapF'[byF],
                                 gor[g].redaction.File, gor[g].redaction)
                      /\ heapR' = heapR
               /\ first \cup second = {} => heapR' = heapR /\ heapF' = heapF
      ]_vars

\* appends have added records at the end of lists that held a record, and
\* GetRedactionList has returned
C16_Witness ==
    /\ get.returned
    /\ \E k \in DOMAIN heapR[allRedactions.ByRedactor] :
           Len(heapR[allRedactions.ByRedactor][k]) >= 2
    /\ \E f \in DOMAIN heapF[allRedactions.ByFile] :
           Len(heapF[allRedactions.ByFile][f]) >= 3

----------------------------------------------------------------------------
(* Progress of the ledger *)

\* C17: progress of the ledger under fair scheduling. Again and again every
\* issued append has been applied and has ended; the mutex, once taken, is
\* released; a GetRedactionList call that has begun returns; a
\* ResetRedactionList that took the mutex returns.
C17_Progress ==
    /\ []<>(\A g \in DOMAIN gor : gor[g].pc = "finished")
    /\ (redactionListMut # NIL) ~> (redactionListMut = NIL)
    /\ (getPc # "idle") ~> (getPc = "idle" /\ get.returned)
    /\ (resetPc # "idle") ~> (resetPc = "idle")

\* a GetRedactionList call waits for pending appends while
\* ResetRedactionList holds the mutex the appends need
C17_Witness ==
    /\ getPc = "wait"
    /\ pendingRedactions >= 2
    /\ redactionListMut = "reset"
    /\ \E g \in DOMAIN gor : gor[g].pc = "spawned"

----------------------------------------------------------------------------
(* A build that fails *)

\* the append goroutines started by the Redact call of c
GoroutinesOf(c) == {g \in DOMAIN gor : gor[g].caller = c}

\* C18: a failed build has no side effect on the ledger. A Redact call
\* whose redactors fail to build chains no redactor, reads nothing of its
\* input, issues no addRedaction and starts no goroutine; the pending
\* counter counts the redactions of the other calls alone, and the ledger
\* holds no record of that call.
C18_FailedBuildNoEffect ==
    \A c \in Callers :
        BuildFails(c) =>
            /\ callPc[c] \in {"start", "returned"}
            /\ chain[c] = <<>>
            /\ drain[c].redactions = <<>>
            /\ issued[c] = 0
            /\ GoroutinesOf(c) = {}
            /\ pendingRedactions <= Cardinality(DOMAIN gor \ GoroutinesOf(c))
            /\ callPc[c] = "returned" => result[c].bytes = <<>> /\ result[c].err # NIL

\* a call has failed to build and returned its error while the other call
\* has issued a redaction that is still pending
C18_Witness ==
    \E c, d \in Callers :
        /\ BuildFails(c)
        /\ callPc[c] = "returned"
        /\ ~BuildFails(d)
        /\ issued[d] >= 1
        /\ pendingRedactions >= 1

----------------------------------------------------------------------------
(* The replacement template *)

\* the strings of a sequence joined into one
RECURSIVE Concat(_)
Concat(ss) == IF ss = <<>> THEN "" ELSE Head(ss) \o Concat(Tail(ss))

\* the template the claim describes for the groups i..n of the pattern
RECURSIVE ClaimedTemplateFrom(_, _, _)
ClaimedTemplateFrom(re, i, maskText) ==
    IF i > Len(re.groups) THEN ""
    ELSE LET name == re.groups[i].name
             piece == CASE name = "" -> "$" \o ToString(i)
                        [] name = "mask" -> maskText
                        [] name = "drop" -> ""
                        [] OTHER -> "${" \o name \o "}"
         IN  piece \o ClaimedTemplateFrom(re, i + 1, maskText)

\* the patterns of the redactor r that get a template
TemplatePatterns(r) == IF r.kind \in {"regex", "multiLine"} THEN {r.re} ELSE {}

\* C19: getReplacementPattern gives the concatenation, over the capture
\* groups 1..n in order, of "$i" for an unnamed group i, the mask text for a
\* group named mask, nothing for a group named drop and "${name}" for any
\* other named group; a pattern without groups gives the empty template.
C19_TemplateOfGroups ==
    \A c \in Callers :
        \A k \in 1..Len(chain[c]) :
            \A re \in TemplatePatterns(chain[c][k]) :
                /\ Concat(getReplacementPattern(re, MASK_TEXT))
                       = ClaimedTemplateFrom(re, 1, MASK_TEXT)
                /\ re.groups = <<>> => getReplacementPattern(re, MASK_TEXT) = <<>>

\* a chain holds a pattern with a drop group, a named group and an unnamed
\* group, and a pattern without groups, next to the built-in patterns
C19_Witness ==
    \E c \in Callers :
        /\ callPc[c] = "drain"
        /\ \E k \in Custom(c) :
               /\ chain[c][k].kind = "regex"
               /\ chain[c][k].re = DropKey
               /\ Concat(getReplacementPattern(DropKey, MASK_TEXT)) = "${val}$3"
        /\ \E k \in Custom(c) :
               /\ chain[c][k].kind = "regex"
               /\ chain[c][k].re = NoGroups

----------------------------------------------------------------------------
(* The pending counter *)

\* the issued appends whose goroutine has not yet made both map updates
Unwritten == {g \in DOMAIN gor : gor[g].pc \in {"spawned", "byRedactor", "byFile"}}

\* the issued appends whose goroutine has not yet called Done
NotDone == {g \in DOMAIN gor : gor[g].pc \in {"spawned", "byRedactor", "byFile", "done"}}

\* C20 as stated: the pending counter always equals the number of issued
\* redactions whose goroutine has not yet written its record.
C20_CounterIsUnwritten ==
    pendingRedactions = Cardinality(Unwritten)

\* C20 as amended: the pending counter equals the number of issued
\* redactions whose goroutine has not yet called Done: those not yet
\* written, and the one whose goroutine holds the mutex and has made both
\* map updates. It is never negative; a goroutine that has called Done has
\* made both updates before, and holds the mutex until its Unlock; so a
\* counter of zero means no issued append is unwritten.
C20_CounterIsNotDone ==
    /\ pendingRedactions = Cardinality(NotDone)
    /\ pendingRedactions >= 0
    /\ Cardinality(Unwritten) <= pendingRedactions
    /\ pendingRedactions <= Cardinality(Unwritten) + 1
    /\ NotDone \ Unwritten \subseteq {redactionListMut}
    /\ pendingRedactions = 0 => Unwritten = {}
    /\ \A g \in DOMAIN gor :
           /\ gor[g].pc \in {"unlock", "finished"} => gor[g].sawR >= 0 /\ gor[g].sawF >= 0
           /\ gor[g].pc = "unlock" => redactionListMut = g

\* one append has ended, one has made both map updates and not yet called
\* Done, and one has not started to write
C20_Witness ==
    /\ pendingRedactions >= 2
    /\ \E f, g, h \in DOMAIN gor :
           /\ gor[f].pc = "finished"
           /\ gor[g].pc = "done"
           /\ gor[h].pc = "spawned"

====
